---- MODULE Spec2Model ----
(***************************************************************************)
(* Model of indi-rpicam/mmalcamera.cpp: the MMALCamera object (camera      *)
(* component wrapper), its constructor, destructor, capture(), abort() and *)
(* set_camera_parameters(), running against the MMAL hardware interface.   *)
(* Every MMAL call returns a status chosen by the environment; throw_if    *)
(* turns a non-success status into an exception that ends the method.      *)
(***************************************************************************)
EXTENDS Integers, Sequences, FiniteSets, TLC

VARIABLES
    life,      \* lifecycle of the MMALCamera object
    cam,       \* the object's fields
    hw,        \* the MMAL component: ports, parameters, camera_info probe
    useIso,    \* build-time option USE_ISO
    discovered,\* the FPS range the hardware returned to the constructor
    lastOp,    \* the method that ran last
    calls,     \* the MMAL calls that method issued, in order, with their status
    fpsArg,    \* the FPS range that method passed to the hardware
    fpsRead,   \* the FPS range that method read from the hardware
    actual_shutter_speed, \* the shutter speed that method read from the hardware
    raised,    \* the exception that method threw (NoError when none)
    warned,    \* the diagnostics that method printed as mismatch warnings
    probed_num_cameras \* <<param.num_cameras>> as the camera-info probe reported it

vars == <<life, cam, hw, useIso, discovered, lastOp, calls, fpsArg, fpsRead,
          actual_shutter_speed, raised, warned, probed_num_cameras>>

----------------------------------------------------------------------------
(* Bounds of the model *)

\* the camera-info probe reports 0..MaxSensors sensors
MaxSensors == 2

----------------------------------------------------------------------------
(* uint32_t values are pairs <<high 16 bits, low 16 bits>>; arithmetic is   *)
(* modulo 2^32 as in C++.                                                   *)

U32(n) == <<n \div 65536, n % 65536>>

U32Max == <<65535, 65535>>

U32Lt(a, b) == a[1] < b[1] \/ (a[1] = b[1] /\ a[2] < b[2])

U32Gt(a, b) == U32Lt(b, a)

U32Add(a, b) ==
    LET lo == a[2] + b[2]
        hi == a[1] + b[1] + (lo \div 65536)
    IN  <<hi % 65536, lo % 65536>>

U32Sub(a, b) ==
    LET lo == a[2] - b[2]
        hi == a[1] - b[1] - (IF lo < 0 THEN 1 ELSE 0)
    IN  <<hi % 65536, lo % 65536>>

----------------------------------------------------------------------------
(* Values *)

NoError == "none"

NoFps == [low |-> <<0, 0>>, high |-> <<0, 0>>]

Unset == <<>>

\* parameters of the control port, the capture output port and the video port
ParamKeys ==
    { "control.CAMERA_NUM", "control.CAMERA_CUSTOM_SENSOR_CONFIG",
      "control.CAMERA_CONFIG", "control.AWB_MODE", "control.SATURATION",
      "control.DIGITAL_GAIN", "control.ISO", "control.BRIGHTNESS",
      "control.EXPOSURE_MODE", "control.INPUT_CROP",
      "control.CAPTURE_STATS_PASS", "control.SHUTTER_SPEED",
      "control.ANALOG_GAIN", "video.ZERO_COPY",
      "capture.ENABLE_RAW_CAPTURE", "capture.CAPTURE" }

\* component->port[]: the control port first, then the output ports
PortArray == <<"control", "preview", "video", "capture">>

\* component->output[]
OutputArray == <<"preview", "video", "capture">>

MMAL_CAMERA_VIDEO_PORT == 1

MMAL_CAMERA_CAPTURE_PORT == 2

\* the sensors the firmware can list, by index
SensorNames == <<"imx477", "ov5647", "imx219", "imx708">>

Sensor(i) ==
    [camera_name |-> SensorNames[i + 1],
     max_width   |-> 4056 - 100 * i,
     max_height  |-> 3040 - 100 * i]

\* the encodings the capture port's format may hold before the constructor
Encodings == { "OPAQUE", "RGB24", "BGR24" }

\* the capture port's format as the component comes up with it
PortFormat(encoding) ==
    [encoding |-> encoding, encoding_variant |-> 0, width |-> 0, height |-> 0,
     crop |-> <<0, 0, 0, 0>>, frame_rate |-> <<0, 1>>, par |-> <<1, 1>>]

\* the default FPS envelopes a sensor may come up with
HwDefaultFps ==
    { [low |-> <<1, 1>>, high |-> <<30, 1>>],
      [low |-> <<2, 1>>, high |-> <<90, 1>>] }

----------------------------------------------------------------------------
(* The running method: object fields, hardware, call log, exception. *)

Start(c, h) ==
    [cam |-> c, hw |-> h, calls |-> <<>>, fpsArg |-> NoFps, fpsRead |-> NoFps,
     actual |-> Unset, raised |-> NoError, warned |-> {}, num_cameras |-> Unset]

Running(m) == m.raised = NoError

\* sequencing: the statement F runs on the state that m has reached
Then(m, F(_)) == CHOOSE r \in { F(x) : x \in {m} } : TRUE

\* MMALException::throw_if(status, message)
throw_if(m, failed, msg) ==
    Then(m, LAMBDA x : IF Running(x) /\ failed THEN [x EXCEPT !.raised = msg] ELSE x)

\* one call of the MMAL interface: logged, and effective when it succeeds
HwCall(m, op, port, id, ok, hwAfter) ==
    Then(m, LAMBDA x :
        IF ~Running(x) THEN x
        ELSE [x EXCEPT !.calls = Append(@, [op |-> op, port |-> port, id |-> id, ok |-> ok]),
                       !.hw = IF ok THEN hwAfter ELSE @])

\* a call that leaves the hardware as it is (a query)
HwQuery(m, op, port, id, ok) ==
    Then(m, LAMBDA x : HwCall(x, op, port, id, ok, x.hw))

\* mmal_port_parameter_set*(port, id, value) followed by throw_if
SetParam(m, port, id, value, ok, msg) ==
    Then(m, LAMBDA x :
        throw_if(HwCall(x, "set", port, id, ok,
                        [x.hw EXCEPT !.param[port \o "." \o id] = value]),
                 ~ok, msg))

Called(log, op, port, id) ==
    \E i \in 1..Len(log) : log[i].op = op /\ log[i].port = port /\ log[i].id = id

CalledOk(log, op, port, id) ==
    \E i \in 1..Len(log) :
        log[i].op = op /\ log[i].port = port /\ log[i].id = id /\ log[i].ok

\* a plain assignment to the object's fields
Assign(m, camAfter) ==
    Then(m, LAMBDA x : IF Running(x) THEN [x EXCEPT !.cam = camAfter] ELSE x)

\* the process dies (a dereference of an invalid component handle)
Crash == "crash"

----------------------------------------------------------------------------
(* Construction *)

\* MMALComponent::enable_port_with_callback(port): enables the port
enable_port_with_callback(m, ok) ==
    Then(m, LAMBDA x :
        throw_if(HwCall(x, "enable", "control", "port", ok,
                        [x.hw EXCEPT !.controlEnabled = TRUE]),
                 ~ok, "Failed to enable port"))

\* static_cast<uint32_t>(cameraNum) compared with num_cameras (at most 4)
NumCamerasLeq(num_cameras, cameraNum) == cameraNum < 0 \/ num_cameras <= cameraNum

\* a use of camera_info when mmal_component_create did not produce a handle:
\* the pointer is uninitialised, the process may die or go on
UseProbe(m, ub) ==
    Then(m, LAMBDA x :
        IF Running(x) /\ x.hw.probe # "alive" /\ ub = "crash"
        THEN [x EXCEPT !.raised = Crash] ELSE x)

\* QueryProbe taking the parameters from the first camera listed
QueryProbe_firstListed(m, in) ==
    LET m1 == UseProbe(m, in.ub)
        m2 == throw_if(HwQuery(m1, "get", "camera_info", "CAMERA_INFO", in.probeOk),
                       ~in.probeOk, "Failed to get camera parameters.")
        m3 == Then(m2, LAMBDA x :
                  IF Running(x) THEN [x EXCEPT !.num_cameras = <<in.num_cameras>>] ELSE x)
        m4 == Then(m3, LAMBDA x :
                  throw_if(x, NumCamerasLeq(in.num_cameras, x.cam.cameraNum),
                           "Camera number not found."))
    IN  Then(m4, LAMBDA x :
            Assign(x, [x.cam EXCEPT !.width = Sensor(0).max_width,
                                    !.height = Sensor(0).max_height,
                                    !.cameraName = Sensor(0).camera_name]))

\* status != MMAL_SUCCESS: the sensor list of the probe component
QueryProbe(m, in) ==
    LET m1 == UseProbe(m, in.ub)
        m2 == throw_if(HwQuery(m1, "get", "camera_info", "CAMERA_INFO", in.probeOk),
                       ~in.probeOk, "Failed to get camera parameters.")
        \* param as the query filled it in
        m3 == Then(m2, LAMBDA x :
                  IF Running(x) THEN [x EXCEPT !.num_cameras = <<in.num_cameras>>] ELSE x)
        m4 == Then(m3, LAMBDA x :
                  throw_if(x, NumCamerasLeq(in.num_cameras, x.cam.cameraNum),
                           "Camera number not found."))
    IN  Then(m4, LAMBDA x :
            Assign(x, [x.cam EXCEPT !.width = Sensor(x.cam.cameraNum).max_width,
                                    !.height = Sensor(x.cam.cameraNum).max_height,
                                    !.cameraName = Sensor(x.cam.cameraNum).camera_name]))

get_sensor_info(m, in) ==
    LET \* mmal_component_create(MMAL_COMPONENT_DEFAULT_CAMERA_INFO, &camera_info)
        m1 == Then(m, LAMBDA x :
                  HwCall(x, "create", "camera_info", "component", in.createOk,
                         [x.hw EXCEPT !.probe = "alive"]))
        m2 == Then(m1, LAMBDA x : Assign(x, [x.cam EXCEPT !.cameraName = "OV5647"]))
        \* the deliberately undersized query on the camera's own control port
        m3 == HwQuery(m2, "get", "control", "CAMERA_INFO", in.undersizedOk)
        m4 == IF ~in.undersizedOk
              THEN QueryProbe(m3, in)
              \* status == MMAL_SUCCESS: default to OV5647
              ELSE Then(m3, LAMBDA x :
                       Assign(x, [x.cam EXCEPT !.width = 2592, !.height = 1944]))
        \* mmal_component_destroy(camera_info)
        m5 == UseProbe(m4, in.ub)
    IN  Then(m5, LAMBDA x :
            HwCall(x, "destroy", "camera_info", "component", TRUE,
                   [x.hw EXCEPT !.probe = IF @ = "alive" THEN "destroyed" ELSE @]))

\* the swap of RGB24 and BGR24 when the port's RGB order is not fixed
RgbOrderSwap(encoding, rgbFixed) ==
    IF ~rgbFixed
    THEN IF encoding = "RGB24" THEN "BGR24"
         ELSE IF encoding = "BGR24" THEN "RGB24"
         ELSE encoding
    ELSE encoding

\* set_capture_port_format with the commit's status dropped
set_capture_port_format_unchecked(m, rgbFixed, ok) ==
    Then(m, LAMBDA x :
        HwCall(x, "commit", "capture", "format", ok,
               [x.hw EXCEPT !.formatCommitted = TRUE]))

\* mmal_util_rgb_order_fixed(port) is logged with its answer as the status
set_capture_port_format(m, rgbFixed, ok) ==
    Then(m, LAMBDA x :
        LET format == [encoding         |-> RgbOrderSwap("OPAQUE", rgbFixed),
                       encoding_variant |-> 0,
                       width            |-> x.cam.width,
                       height           |-> x.cam.height,
                       crop             |-> <<0, 0, x.cam.width, x.cam.height>>,
                       frame_rate       |-> <<0, 1>>,
                       par              |-> <<1, 1>>]
        IN  throw_if(HwCall(HwQuery(x, "rgb_order_fixed", "capture", "format", rgbFixed),
                            "commit", "capture", "format", ok,
                            [x.hw EXCEPT !.format = format, !.formatCommitted = TRUE]),
                     ~ok, "camera capture port format couldn't be set"))

\* MMALCamera::MMALCamera(int n)
MMALCamera(m, n, in) ==
    LET ok(point) == in.fail # point
        m0 == Then(m, LAMBDA x : Assign(x, [x.cam EXCEPT !.cameraNum = n]))
        m1 == SetParam(m0, "control", "CAMERA_NUM", <<n>>, ok("CAMERA_NUM"),
                       "Could not select camera")
        m2 == throw_if(m1, in.output_num = 0, "Camera doesn't have output ports")
        m3 == SetParam(m2, "control", "CAMERA_CUSTOM_SENSOR_CONFIG", <<0>>,
                       ok("CAMERA_CUSTOM_SENSOR_CONFIG"), "Could not set sensor mode")
        m4 == enable_port_with_callback(m3, ok("enable_control"))
        m5 == get_sensor_info(m4, in)
        m6 == Then(m5, LAMBDA x :
                  SetParam(x, "control", "CAMERA_CONFIG", <<x.cam.width, x.cam.height>>,
                           ok("CAMERA_CONFIG"), "Failed to set camera config"))
        m7 == set_capture_port_format(m6, in.rgbFixed, ok("format_commit"))
        \* Save cameras default FPS range.
        m8 == throw_if(HwQuery(m7, "get", "capture", "FPS_RANGE", ok("FPS_RANGE")),
                       ~ok("FPS_RANGE"), "Failed to get FPS range")
    IN  Then(m8, LAMBDA x :
            IF Running(x)
            THEN [x EXCEPT !.fpsRead = x.hw.fps_range,
                           !.cam.fps_low = x.hw.fps_range.low,
                           !.cam.fps_high = x.hw.fps_range.high]
            ELSE x)

----------------------------------------------------------------------------
(* Teardown, capture, abort *)

\* the destructor without the is_enabled tests
Destructor_unguarded(m, captureOk, controlOk) ==
    LET m1 == Then(m, LAMBDA x :
                  throw_if(HwCall(x, "disable", "capture", "port", captureOk,
                                  [x.hw EXCEPT !.captureEnabled = FALSE]),
                           ~captureOk, "Failed to disable capture port"))
    IN  Then(m1, LAMBDA x :
            throw_if(HwCall(x, "disable", "control", "port", controlOk,
                            [x.hw EXCEPT !.controlEnabled = FALSE]),
                     ~controlOk, "Failed to disable control port"))

\* MMALCamera::~MMALCamera()
Destructor(m, captureOk, controlOk) ==
    LET m1 == Then(m, LAMBDA x :
                  IF x.hw.captureEnabled
                  THEN throw_if(HwCall(x, "disable", "capture", "port", captureOk,
                                       [x.hw EXCEPT !.captureEnabled = FALSE]),
                                ~captureOk, "Failed to disable capture port")
                  ELSE x)
    IN  Then(m1, LAMBDA x :
            IF x.hw.controlEnabled
            THEN throw_if(HwCall(x, "disable", "control", "port", controlOk,
                                 [x.hw EXCEPT !.controlEnabled = FALSE]),
                          ~controlOk, "Failed to disable control port")
            ELSE x)

\* capture() with the enable's status dropped
capture_unchecked(m, enableOk, flagOk) ==
    LET m1 == Then(m, LAMBDA x :
                  HwCall(x, "enable", "component", "component", enableOk,
                         [x.hw EXCEPT !.componentEnabled = TRUE]))
    IN  SetParam(m1, "capture", "CAPTURE", <<1>>, flagOk, "Failed to start capture")

\* MMALCamera::capture()
capture(m, enableOk, flagOk) ==
    LET m1 == Then(m, LAMBDA x :
                  throw_if(HwCall(x, "enable", "component", "component", enableOk,
                                  [x.hw EXCEPT !.componentEnabled = TRUE]),
                           ~enableOk, "camera component couldn't be enabled"))
    IN  SetParam(m1, "capture", "CAPTURE", <<1>>, flagOk, "Failed to start capture")

\* MMALCamera::abort()
abort(m, flagOk, disableOk) ==
    LET m1 == SetParam(m, "capture", "CAPTURE", <<0>>, flagOk, "Failed to abort capture")
    IN  Then(m1, LAMBDA x :
            throw_if(HwCall(x, "disable", "component", "component", disableOk,
                            [x.hw EXCEPT !.componentEnabled = FALSE]),
                     ~disableOk, "camera component couldn't be disabled"))

----------------------------------------------------------------------------
(* set_camera_parameters *)

\* the hardware-recommended buffer size of each port
BufferRecommended(port) ==
    CASE port = "control" -> 512
      [] port = "preview" -> 1024
      [] port = "video"   -> 2048
      [] port = "capture" -> 4096

\* AWB mode, saturation, digital gain, [ISO], brightness, exposure mode, crop
ApplyControls(m, iso_build, in) ==
    LET ok(point) == in.fail # point
        m1 == SetParam(m, "control", "AWB_MODE", <<1>>, ok("AWB_MODE"),
                       "Failed to set AWB mode")
        m2 == SetParam(m1, "control", "SATURATION", <<10, 0>>, ok("SATURATION"),
                       "Failed to set saturation")
        m3 == SetParam(m2, "control", "DIGITAL_GAIN", <<1, 1>>, ok("DIGITAL_GAIN"),
                       "Failed to set digital gain")
        m4 == IF iso_build
              THEN Then(m3, LAMBDA x :
                       SetParam(x, "control", "ISO", <<x.cam.iso>>, ok("ISO"),
                                "Failed to set ISO"))
              ELSE m3
        m5 == SetParam(m4, "control", "BRIGHTNESS", <<50, 100>>, ok("BRIGHTNESS"),
                       "Failed to set brightness")
        m6 == SetParam(m5, "control", "EXPOSURE_MODE", <<0>>, ok("EXPOSURE_MODE"),
                       "Failed to set exposure mode")
    IN  SetParam(m6, "control", "INPUT_CROP", <<0, 0, 4096, 4096>>, ok("INPUT_CROP"),
                 "Failed to set ROI")

\* ApplyPortSetup with raw capture and zero-copy exchanged
ApplyPortSetup_reordered(m, in) ==
    LET ok(point) == in.fail # point
        port == PortArray[MMAL_CAMERA_CAPTURE_PORT + 1]
        m1 == Then(m, LAMBDA x :
                  HwCall(x, "assign", port, "buffer_size", TRUE,
                         [x.hw EXCEPT !.buffer_size[port] = BufferRecommended(port)]))
        m2 == SetParam(m1, OutputArray[MMAL_CAMERA_CAPTURE_PORT + 1], "ENABLE_RAW_CAPTURE",
                       <<1>>, ok("ENABLE_RAW_CAPTURE"), "Failed to set raw capture")
        m3 == SetParam(m2, OutputArray[MMAL_CAMERA_VIDEO_PORT + 1], "ZERO_COPY", <<1>>,
                       ok("ZERO_COPY"), "Failed to turn on zero-copy for video port")
    IN  SetParam(m3, "control", "CAPTURE_STATS_PASS", <<1>>, ok("CAPTURE_STATS_PASS"),
                 "Failed to set CAPTURE_STATS_PASS")

\* buffer size, zero-copy, raw capture, statistics pass
ApplyPortSetup(m, in) ==
    LET ok(point) == in.fail # point
        port == PortArray[MMAL_CAMERA_CAPTURE_PORT + 1]
        m1 == Then(m, LAMBDA x :
                  HwCall(x, "assign", port, "buffer_size", TRUE,
                         [x.hw EXCEPT !.buffer_size[port] = BufferRecommended(port)]))
        m2 == SetParam(m1, OutputArray[MMAL_CAMERA_VIDEO_PORT + 1], "ZERO_COPY", <<1>>,
                       ok("ZERO_COPY"), "Failed to turn on zero-copy for video port")
        m3 == SetParam(m2, OutputArray[MMAL_CAMERA_CAPTURE_PORT + 1], "ENABLE_RAW_CAPTURE",
                       <<1>>, ok("ENABLE_RAW_CAPTURE"), "Failed to set raw capture")
    IN  SetParam(m3, "control", "CAPTURE_STATS_PASS", <<1>>, ok("CAPTURE_STATS_PASS"),
                 "Failed to set CAPTURE_STATS_PASS")

ShutterTolerance == 100000

\* ShutterMismatch without the lower bound
ShutterMismatch_upperOnly(actual, shutter_speed) ==
    U32Gt(actual, U32Add(shutter_speed, U32(ShutterTolerance)))

\* actual < shutter_speed - 100000 || actual > shutter_speed + 100000, in uint32_t
ShutterMismatch(actual, shutter_speed) ==
    \/ U32Lt(actual, U32Sub(shutter_speed, U32(ShutterTolerance)))
    \/ U32Gt(actual, U32Add(shutter_speed, U32(ShutterTolerance)))

\* MMALCamera::get_shutter_speed()
get_shutter_speed(m, ok) ==
    throw_if(HwQuery(m, "get", "control", "SHUTTER_SPEED", ok),
             ~ok, "Failed to get shutter speed")

\* shutter speed: set, read back, compare. The read-back returns the value
\* the sensor quantised the request to (in.actual).
ApplyShutterSpeed(m, in) ==
    LET m1 == Then(m, LAMBDA x :
                  SetParam(x, "control", "SHUTTER_SPEED", x.cam.shutter_speed,
                           in.fail # "SHUTTER_SPEED", "Failed to set shutter speed"))
        m2 == get_shutter_speed(m1, in.fail # "get SHUTTER_SPEED")
    IN  Then(m2, LAMBDA x :
            IF Running(x)
            THEN [x EXCEPT !.actual = in.actual,
                           !.warned = IF ShutterMismatch(in.actual, x.cam.shutter_speed)
                                      THEN @ \cup {"shutter"} ELSE @]
            ELSE x)

LongExposure == 6000000

MediumExposure == 1000000

\* ExposureRanges with >= for >
ExposureRanges_inclusive(shutter_speed, fps_low, fps_high) ==
    IF ~U32Lt(shutter_speed, U32(LongExposure))
    THEN [low |-> <<5, 1000>>, high |-> <<166, 1000>>]
    ELSE IF ~U32Lt(shutter_speed, U32(MediumExposure))
    THEN [low |-> <<167, 1000>>, high |-> <<999, 1000>>]
    ELSE [low |-> fps_low, high |-> fps_high]

\* the FPS range for a shutter speed
ExposureRanges(shutter_speed, fps_low, fps_high) ==
    IF U32Gt(shutter_speed, U32(LongExposure))
    THEN [low |-> <<5, 1000>>, high |-> <<166, 1000>>]
    ELSE IF U32Gt(shutter_speed, U32(MediumExposure))
    THEN [low |-> <<167, 1000>>, high |-> <<999, 1000>>]
    ELSE [low |-> fps_low, high |-> fps_high]

\* how the range the port reports may differ from the range it was given
FpsReadBacks == { "same", "low.num", "low.den", "high.num", "high.den" }

\* what the port reports of a range it was given: the range, or one it
\* adjusted in one of its four values
FpsKept(range, back) ==
    CASE back = "same"     -> range
      [] back = "low.num"  -> [range EXCEPT !.low = <<@[1] + 1, @[2]>>]
      [] back = "low.den"  -> [range EXCEPT !.low = <<@[1], @[2] + 1>>]
      [] back = "high.num" -> [range EXCEPT !.high = <<@[1] + 1, @[2]>>]
      [] back = "high.den" -> [range EXCEPT !.high = <<@[1], @[2] + 1>>]

\* CommitFpsRange with a comparison of the numerators only
CommitFpsRange_numeratorsOnly(m, range, in) ==
    LET m0 == Then(m, LAMBDA x : IF Running(x) THEN [x EXCEPT !.fpsArg = range] ELSE x)
        m1 == Then(m0, LAMBDA x :
                  throw_if(HwCall(x, "set", "capture", "FPS_RANGE", in.fail # "FPS_RANGE",
                                  [x.hw EXCEPT !.fps_range = range]),
                           in.fail = "FPS_RANGE", "Failed to set FPS range"))
        m2 == throw_if(HwQuery(m1, "get", "capture", "FPS_RANGE", in.fail # "get FPS_RANGE"),
                       in.fail = "get FPS_RANGE", "Failed to get FPS range")
    IN  Then(m2, LAMBDA x :
            LET back == FpsKept(x.hw.fps_range, in.fpsBack)
            IN  IF Running(x)
                THEN [x EXCEPT !.fpsRead = back,
                               !.warned = IF \/ back.low[1] # range.low[1]
                                             \/ back.high[1] # range.high[1]
                                          THEN @ \cup {"fps"} ELSE @]
                ELSE x)

\* the FPS range committed to the capture port, read back and compared
CommitFpsRange(m, range, in) ==
    LET m0 == Then(m, LAMBDA x : IF Running(x) THEN [x EXCEPT !.fpsArg = range] ELSE x)
        m1 == Then(m0, LAMBDA x :
                  throw_if(HwCall(x, "set", "capture", "FPS_RANGE", in.fail # "FPS_RANGE",
                                  [x.hw EXCEPT !.fps_range = range]),
                           in.fail = "FPS_RANGE", "Failed to set FPS range"))
        m2 == throw_if(HwQuery(m1, "get", "capture", "FPS_RANGE", in.fail # "get FPS_RANGE"),
                       in.fail = "get FPS_RANGE", "Failed to get FPS range")
    IN  Then(m2, LAMBDA x :
            LET back == FpsKept(x.hw.fps_range, in.fpsBack)
            IN  IF Running(x)
                THEN [x EXCEPT !.fpsRead = back,
                               !.warned = IF \/ back.low[1] # range.low[1]
                                             \/ back.low[2] # range.low[2]
                                             \/ back.high[1] # range.high[1]
                                             \/ back.high[2] # range.high[2]
                                          THEN @ \cup {"fps"} ELSE @]
                ELSE x)

\* ApplyFpsRange with low and high held in the members fps_low and fps_high
ApplyFpsRange_overwrites(m, in) ==
    Then(m, LAMBDA x :
        LET range == ExposureRanges(x.cam.shutter_speed, x.cam.fps_low, x.cam.fps_high)
        IN  CommitFpsRange(Assign(x, [x.cam EXCEPT !.fps_low = range.low,
                                                   !.fps_high = range.high]),
                           range, in))

\* exposure ranges: derive, commit, read back
ApplyFpsRange(m, in) ==
    Then(m, LAMBDA x :
        CommitFpsRange(x, ExposureRanges(x.cam.shutter_speed, x.cam.fps_low,
                                         x.cam.fps_high), in))

\* gain is held in units of 1/GainUnit; static_cast<int32_t>(gain * 65536)
\* drops the fraction
GainUnit == 262144

AnalogGainNum(gain) == gain \div (GainUnit \div 65536)

ApplyAnalogGain(m, in) ==
    Then(m, LAMBDA x :
        SetParam(x, "control", "ANALOG_GAIN", <<AnalogGainNum(x.cam.gain), 65536>>,
                 in.fail # "ANALOG_GAIN", "Failed to set analog gain"))

\* MMALCamera::set_camera_parameters()
set_camera_parameters(m, iso_build, in) ==
    ApplyAnalogGain(
        ApplyFpsRange(
            ApplyShutterSpeed(
                ApplyPortSetup(
                    ApplyControls(m, iso_build, in), in), in), in), in)

----------------------------------------------------------------------------
(* Inputs *)

CameraNums == -1 .. MaxSensors

CtorFailPoints ==
    { "none", "CAMERA_NUM", "CAMERA_CUSTOM_SENSOR_CONFIG", "enable_control",
      "CAMERA_CONFIG", "format_commit", "FPS_RANGE" }

\* the environment of one construction; the fields that the code does not
\* look at in a scenario are held at one value
CtorInputs ==
    { in \in [fail : CtorFailPoints, output_num : {0, 3}, createOk : BOOLEAN,
              undersizedOk : BOOLEAN, probeOk : BOOLEAN,
              num_cameras : 0 .. MaxSensors, ub : {"crash", "benign"},
              rgbFixed : BOOLEAN] :
        /\ in.createOk => in.ub = "benign"
        /\ in.undersizedOk => (in.probeOk /\ in.num_cameras = MaxSensors)
        /\ in.output_num = 0 => in.fail = "none" }

ApplyFailPoints ==
    { "none", "AWB_MODE", "SATURATION", "DIGITAL_GAIN", "ISO", "BRIGHTNESS",
      "EXPOSURE_MODE", "INPUT_CROP", "ZERO_COPY", "ENABLE_RAW_CAPTURE",
      "CAPTURE_STATS_PASS", "SHUTTER_SPEED", "get SHUTTER_SPEED", "FPS_RANGE",
      "get FPS_RANGE", "ANALOG_GAIN" }

\* the calls that follow the shutter-speed read-back
AfterShutterRead == { "none", "FPS_RANGE", "get FPS_RANGE", "ANALOG_GAIN" }

\* the calls that follow the FPS-range read-back
AfterFpsRead == { "none", "ANALOG_GAIN" }

ShutterSpeeds ==
    { U32(50000), U32(1000000), U32(1000001), U32(6000000), U32(6000001), U32Max }

\* how far from the request the sensor quantises a shutter speed: <<sign, distance>>
Drifts ==
    { <<1, 0>>, <<1, ShutterTolerance>>, <<1, ShutterTolerance + 1>>,
      <<-1, ShutterTolerance>>, <<-1, ShutterTolerance + 1>> }

\* the value read back for a request S, modulo 2^32
Drifted(S, drift) ==
    IF drift[1] > 0 THEN U32Add(S, U32(drift[2])) ELSE U32Sub(S, U32(drift[2]))

Gains == { 2 * GainUnit, 174763 }

\* the environment of one set_camera_parameters; a read-back that the failing
\* call keeps from happening is held at one value
ApplyInputs(S, iso_build, fails, drifts) ==
    { in \in [fail : fails, actual : { Drifted(S, d) : d \in drifts },
              fpsBack : FpsReadBacks] :
        /\ in.fail \notin AfterShutterRead => in.actual = S
        /\ in.fail \notin AfterFpsRead => in.fpsBack = "same"
        /\ in.fail = "ISO" => iso_build }

----------------------------------------------------------------------------
(* The state machine *)

Ports == { PortArray[i] : i \in 1 .. Len(PortArray) }

\* the object before its constructor ran, on a sensor with some default FPS
\* envelope, in a build with or without USE_ISO
Init ==
    /\ life = "unconstructed"
    /\ cam = [cameraNum |-> 0, cameraName |-> "", width |-> 0, height |-> 0,
              fps_low |-> <<0, 0>>, fps_high |-> <<0, 0>>,
              shutter_speed |-> U32(ShutterTolerance), gain |-> GainUnit, iso |-> 0]
    /\ hw \in [componentEnabled : {FALSE}, controlEnabled : {FALSE},
               captureEnabled : {FALSE},
               param : {[k \in ParamKeys |-> Unset]},
               fps_range : HwDefaultFps,
               buffer_size : {[p \in Ports |-> 0]},
               format : { PortFormat(e) : e \in Encodings }, formatCommitted : {FALSE},
               probe : {"none"}]
    /\ useIso \in BOOLEAN
    /\ discovered = NoFps
    /\ lastOp = "none"
    /\ calls = <<>>
    /\ fpsArg = NoFps
    /\ fpsRead = NoFps
    /\ actual_shutter_speed = Unset
    /\ raised = NoError
    /\ warned = {}
    /\ probed_num_cameras = Unset

\* a method returns or throws: its effects and its trace become the state
Finish(m, op) ==
    /\ cam' = m.cam
    /\ hw' = m.hw
    /\ lastOp' = op
    /\ calls' = m.calls
    /\ fpsArg' = m.fpsArg
    /\ fpsRead' = m.fpsRead
    /\ actual_shutter_speed' = m.actual
    /\ raised' = m.raised
    /\ warned' = m.warned
    /\ probed_num_cameras' = m.num_cameras

ConstructWith(nums, inputs) ==
    /\ life = "unconstructed"
    /\ \E n \in nums, in \in inputs :
         \E m \in { MMALCamera(Start(cam, hw), n, in) } :
             /\ Finish(m, "MMALCamera")
             /\ life' = IF Running(m) THEN "live"
                        ELSE IF m.raised = Crash THEN "crashed" ELSE "failed"
             /\ discovered' = m.fpsRead
    /\ UNCHANGED useIso

\* construction in every environment
Construct == ConstructWith(CameraNums, CtorInputs)

\* construction of camera 0 on a system where every call succeeds
ConstructPlain ==
    ConstructWith({0}, { in \in CtorInputs :
                            /\ in.fail = "none" /\ in.output_num # 0 /\ in.createOk
                            /\ ~in.undersizedOk /\ in.probeOk
                            /\ in.num_cameras = MaxSensors /\ in.rgbFixed })

Destruct ==
    /\ life = "live"
    /\ \E captureOk \in BOOLEAN, controlOk \in BOOLEAN :
         \E m \in { Destructor(Start(cam, hw), captureOk, controlOk) } :
             Finish(m, "~MMALCamera")
    /\ life' = "destroyed"
    /\ UNCHANGED <<useIso, discovered>>

Capture ==
    /\ life = "live"
    /\ \E enableOk \in BOOLEAN, flagOk \in BOOLEAN :
         \E m \in { capture(Start(cam, hw), enableOk, flagOk) } : Finish(m, "capture")
    /\ UNCHANGED <<life, useIso, discovered>>

Abort ==
    /\ life = "live"
    /\ \E flagOk \in BOOLEAN, disableOk \in BOOLEAN :
         \E m \in { abort(Start(cam, hw), flagOk, disableOk) } : Finish(m, "abort")
    /\ UNCHANGED <<life, useIso, discovered>>

ApplyWith(fails, drifts) ==
    /\ life = "live"
    /\ \E in \in ApplyInputs(cam.shutter_speed, useIso, fails, drifts) :
         \E m \in { set_camera_parameters(Start(cam, hw), useIso, in) } :
             Finish(m, "set_camera_parameters")
    /\ UNCHANGED <<life, useIso, discovered>>

\* set_camera_parameters in every environment
ApplyParameters == ApplyWith(ApplyFailPoints, Drifts)

\* set_camera_parameters where any call may fail and the sensor quantises
\* the shutter speed to the request or far from it
ApplyAnyFailure == ApplyWith(ApplyFailPoints, {<<1, 0>>, <<1, ShutterTolerance + 1>>})

\* set_camera_parameters where the calls up to the shutter-speed set succeed
ApplyAnyReadback == ApplyWith(AfterShutterRead \cup {"get SHUTTER_SPEED"}, Drifts)

\* set_camera_parameters where no call fails and the read-backs are exact
ApplyPlain == ApplyWith({"none"}, {<<1, 0>>})

\* the driver layer stores the next exposure's settings in the object
SettingsWith(shutters, gains) ==
    /\ life = "live"
    /\ \E S \in shutters, g \in gains :
         \E m \in { Assign(Start(cam, hw),
                             [cam EXCEPT !.shutter_speed = S, !.gain = g]) } :
             Finish(m, "settings")
    /\ UNCHANGED <<life, useIso, discovered>>

SetExposureSettings == SettingsWith(ShutterSpeeds, Gains)

\* the driver layer stores the next shutter speed
SetShutterSpeed == SettingsWith(ShutterSpeeds, {cam.gain})

\* a short and a long exposure, at either gain
SetShortOrLong == SettingsWith({U32(MediumExposure), U32(LongExposure + 1)}, Gains)

\* the frame pipeline enables or disables the capture output port
ExternalPortSwitch ==
    /\ life = "live"
    /\ \E m \in { [Start(cam, hw) EXCEPT !.hw.captureEnabled = ~@] } :
         Finish(m, "external")
    /\ UNCHANGED <<life, useIso, discovered>>

\* the owner of the component disables or re-enables the control channel
ExternalControlSwitch ==
    /\ life = "live"
    /\ \E m \in { [Start(cam, hw) EXCEPT !.hw.controlEnabled = ~@] } :
         Finish(m, "external")
    /\ UNCHANGED <<life, useIso, discovered>>

\* the object's lifecycle, in every construction environment
Next ==
    \/ Construct
    \/ Destruct
    \/ Capture
    \/ Abort
    \/ ApplyPlain
    \/ ExternalPortSwitch
    \/ ExternalControlSwitch

Spec == Init /\ [][Next]_vars

\* set_camera_parameters with a failure at any call, on a constructed object
NextParameters ==
    \/ ConstructPlain
    \/ SetShortOrLong
    \/ ApplyAnyFailure

SpecParameters == Init /\ [][NextParameters]_vars

\* exposure cycles over the shutter speeds and the sensor's read-backs
NextExposure ==
    \/ ConstructPlain
    \/ SetShutterSpeed
    \/ ApplyAnyReadback

SpecExposure == Init /\ [][NextExposure]_vars

----------------------------------------------------------------------------
(* Properties *)

Last(log) == log[Len(log)]

AnyFailed(log) == \E i \in 1..Len(log) : ~log[i].ok

\* C1: when the destructor runs with the capture output port and the control
\* channel both enabled, both disables are attempted, whatever the status of
\* either one.
C1_BestEffortTeardown ==
    [][ (lastOp' = "~MMALCamera" /\ hw.captureEnabled /\ hw.controlEnabled)
        => ( /\ Called(calls', "disable", "capture", "port")
             /\ Called(calls', "disable", "control", "port") ) ]_vars

\* C2: abort() attempts both the clearing of the capture flag and the disable
\* of the component, whatever the status of the first, and a failure of
\* either is raised.
C2_AbortAttemptsBoth ==
    lastOp = "abort"
    => /\ Called(calls, "set", "capture", "CAPTURE")
       /\ Called(calls, "disable", "component", "component")
       /\ (AnyFailed(calls) => raised # NoError)

\* C3: an abort() that directly follows a completed abort(), so that the
\* component is already disabled, raises no error when the hardware reports
\* a failure for the disable of the already-disabled component.
C3_AbortRepeatable ==
    [][ ( /\ lastOp = "abort" /\ raised = NoError /\ ~hw.componentEnabled
          /\ lastOp' = "abort"
          /\ CalledOk(calls', "set", "capture", "CAPTURE") )
        => raised' = NoError ]_vars

C5_EnabledOnlyConfigured ==
    hw.componentEnabled
    => /\ life \in {"live", "destroyed"}
       /\ hw.formatCommitted
       /\ hw.param["control.CAMERA_CONFIG"] # Unset

\* C5 witness: capture() enabled the component of a constructed object.
C5_Witness ==
    /\ lastOp = "capture" /\ hw.componentEnabled /\ hw.formatCommitted

\* C6: whenever abort() disables the component, the capture output port is
\* not enabled at that moment.
C6_PortDisabledFirst ==
    [][ (lastOp' = "abort" /\ CalledOk(calls', "disable", "component", "component"))
        => ~hw.captureEnabled ]_vars

\* the order of set_camera_parameters: <<operation, parameter, error>>
ParameterOrder(iso_build) ==
    <<  <<"set", "AWB_MODE", "Failed to set AWB mode">>,
        <<"set", "SATURATION", "Failed to set saturation">>,
        <<"set", "DIGITAL_GAIN", "Failed to set digital gain">> >>
    \o (IF iso_build THEN << <<"set", "ISO", "Failed to set ISO">> >> ELSE << >>)
    \o << <<"set", "BRIGHTNESS", "Failed to set brightness">>,
          <<"set", "EXPOSURE_MODE", "Failed to set exposure mode">>,
          <<"set", "INPUT_CROP", "Failed to set ROI">>,
          <<"assign", "buffer_size", "">>,
          <<"set", "ZERO_COPY", "Failed to turn on zero-copy for video port">>,
          <<"set", "ENABLE_RAW_CAPTURE", "Failed to set raw capture">>,
          <<"set", "CAPTURE_STATS_PASS", "Failed to set CAPTURE_STATS_PASS">>,
          <<"set", "SHUTTER_SPEED", "Failed to set shutter speed">>,
          <<"get", "SHUTTER_SPEED", "Failed to get shutter speed">>,
          <<"set", "FPS_RANGE", "Failed to set FPS range">>,
          <<"get", "FPS_RANGE", "Failed to get FPS range">>,
          <<"set", "ANALOG_GAIN", "Failed to set analog gain">> >>

\* what the hardware holds of a parameter that a call set
Applied(call) ==
    IF call.id = "FPS_RANGE" THEN hw.fps_range = fpsArg
    ELSE IF call.id = "SHUTTER_SPEED"
    THEN hw.param["control.SHUTTER_SPEED"] = cam.shutter_speed
    ELSE hw.param[call.port \o "." \o call.id] # Unset

\* C7: the calls of set_camera_parameters are a prefix of the fixed order;
\* only the last may have failed, its error names its parameter, nothing is
\* attempted after it, and what was set before it stays set.
C7_FixedOrderFailFast ==
    lastOp = "set_camera_parameters"
    => LET order == ParameterOrder(useIso)
           n == Len(calls)
       IN  /\ n >= 1 /\ n <= Len(order)
           /\ \A i \in 1..n : calls[i].op = order[i][1] /\ calls[i].id = order[i][2]
           /\ \A i \in 1..(n - 1) : calls[i].ok
           /\ ~calls[n].ok => raised = order[n][3]
           /\ calls[n].ok => (n = Len(order) /\ raised = NoError)
           /\ \A i \in 1..n : (calls[i].op = "set" /\ calls[i].ok) => Applied(calls[i])

\* C7 witness: the shutter-speed set failed; the statistics pass before it
\* is applied, the FPS range after it was not attempted.
C7_Witness ==
    /\ lastOp = "set_camera_parameters"
    /\ raised = "Failed to set shutter speed"
    /\ hw.param["control.CAPTURE_STATS_PASS"] = <<1>>
    /\ ~Called(calls, "set", "capture", "FPS_RANGE")

\* C8: the FPS range passed to the capture port is 5/1000..166/1000 for a
\* shutter speed above 6,000,000, 167/1000..999/1000 above 1,000,000 and up
\* to 6,000,000, and the stored default range up to 1,000,000.
C8_ThreeRegimes ==
    (lastOp = "set_camera_parameters" /\ Called(calls, "set", "capture", "FPS_RANGE"))
    => LET S == cam.shutter_speed
           aboveLong == U32Lt(<<91, 36224>>, S)
           aboveMedium == U32Lt(<<15, 16960>>, S)
       IN  /\ aboveLong => fpsArg = [low |-> <<5, 1000>>, high |-> <<166, 1000>>]
           /\ (aboveMedium /\ ~aboveLong)
                => fpsArg = [low |-> <<167, 1000>>, high |-> <<999, 1000>>]
           /\ ~aboveMedium => fpsArg = [low |-> cam.fps_low, high |-> cam.fps_high]
           /\ S = <<91, 36224>>
                => fpsArg = [low |-> <<167, 1000>>, high |-> <<999, 1000>>]
           /\ S = <<15, 16960>> => fpsArg = [low |-> cam.fps_low, high |-> cam.fps_high]
           /\ CalledOk(calls, "set", "capture", "FPS_RANGE") => hw.fps_range = fpsArg

\* C8 witness: a shutter speed of exactly 6,000,000 committed the middle range.
C8_Witness ==
    /\ lastOp = "set_camera_parameters"
    /\ cam.shutter_speed = <<91, 36224>>
    /\ CalledOk(calls, "set", "capture", "FPS_RANGE")
    /\ hw.fps_range = [low |-> <<167, 1000>>, high |-> <<999, 1000>>]

\* C9: the stored default FPS range stays the one read at construction, and
\* a set_camera_parameters with a shutter speed up to 1,000,000 passes
\* exactly that range to the capture port, whatever was committed before.
C9_DefaultEnvelopeKept ==
    /\ life = "live" =>
         /\ cam.fps_low = discovered.low /\ cam.fps_high = discovered.high
         /\ discovered \in HwDefaultFps
    /\ ( /\ lastOp = "set_camera_parameters"
         /\ Called(calls, "set", "capture", "FPS_RANGE")
         /\ ~U32Lt(<<15, 16960>>, cam.shutter_speed) )
       => fpsArg = discovered

\* C9 witness: the port holds a long-exposure range from an earlier call; a
\* call with a short shutter speed passes the discovered range.
C9_Witness ==
    /\ lastOp = "set_camera_parameters"
    /\ ~U32Lt(<<15, 16960>>, cam.shutter_speed)
    /\ Called(calls, "set", "capture", "FPS_RANGE")
    /\ ~CalledOk(calls, "set", "capture", "FPS_RANGE")
    /\ hw.fps_range = [low |-> <<5, 1000>>, high |-> <<166, 1000>>]
    /\ fpsArg = discovered

\* the distance of two uint32_t values, as an integer
U32Dist(a, b) == IF U32Lt(a, b) THEN U32Sub(b, a) ELSE U32Sub(a, b)

FarOff(actual, S) == U32Lt(<<1, 34464>>, U32Dist(actual, S))

\* C10: a shutter speed read back more than 100,000 off the request gives a
\* warning and no error; the FPS range is committed next, and unless a later
\* call fails the analog gain is set.
C10_MismatchAdvisory ==
    ( /\ lastOp = "set_camera_parameters"
      /\ actual_shutter_speed # Unset
      /\ FarOff(actual_shutter_speed, cam.shutter_speed) )
    => /\ "shutter" \in warned
       /\ raised \notin {"Failed to set shutter speed", "Failed to get shutter speed"}
       /\ Called(calls, "set", "capture", "FPS_RANGE")
       /\ ~AnyFailed(calls)
            => (raised = NoError /\ CalledOk(calls, "set", "control", "ANALOG_GAIN"))

\* C10 witness: the read-back is 100,001 above the request, the warning is
\* out, the call completed with the analog gain set.
C10_Witness ==
    /\ lastOp = "set_camera_parameters"
    /\ actual_shutter_speed = U32Add(cam.shutter_speed, <<1, 34465>>)
    /\ "shutter" \in warned
    /\ raised = NoError
    /\ CalledOk(calls, "set", "control", "ANALOG_GAIN")

\* C11: the destructor issues a disable for a port only if that port is
\* enabled when it runs; with the capture output port and the control channel
\* both not enabled it issues no call and raises no error.
C11_DisableOnlyEnabled ==
    [][ lastOp' = "~MMALCamera"
        => /\ Called(calls', "disable", "capture", "port") => hw.captureEnabled
           /\ Called(calls', "disable", "control", "port") => hw.controlEnabled
           /\ (~hw.captureEnabled /\ ~hw.controlEnabled)
                => (calls' = <<>> /\ raised' = NoError) ]_vars

\* C11 witness: the destructor ran and issued no call at all.
C11_Witness ==
    /\ lastOp = "~MMALCamera" /\ life = "destroyed"
    /\ calls = <<>> /\ raised = NoError
    /\ ~hw.captureEnabled /\ ~hw.controlEnabled

C13_ProbeFailureFallsBack ==
    ( /\ lastOp = "MMALCamera"
      /\ CalledOk(calls, "create", "camera_info", "component")
      /\ Called(calls, "get", "camera_info", "CAMERA_INFO")
      /\ ~CalledOk(calls, "get", "camera_info", "CAMERA_INFO") )
    => /\ raised # "Failed to get camera parameters."
       /\ cam.cameraName = "OV5647"
       /\ cam.width = 2592 /\ cam.height = 1944

\* C14: in a construction whose probe component was created, the encoding
\* committed on the capture port is the encoding the port's format held on
\* entry, with RGB24 and BGR24 exchanged when the port does not report a
\* fixed RGB order, and unchanged when it does.
C14_EncodingSwap ==
    [][ ( /\ lastOp' = "MMALCamera"
          /\ CalledOk(calls', "create", "camera_info", "component")
          /\ CalledOk(calls', "commit", "capture", "format") )
        => LET requested == hw.format.encoding
               fixed == CalledOk(calls', "rgb_order_fixed", "capture", "format")
           IN  hw'.format.encoding =
                   IF fixed THEN requested
                   ELSE IF requested = "RGB24" THEN "BGR24"
                   ELSE IF requested = "BGR24" THEN "RGB24"
                   ELSE requested ]_vars

\* C15: the analog gain that set_camera_parameters sets is the rational with
\* denominator 65536 and numerator gain x 65536 rounded to the nearest
\* integer (gain is held in units of 1/GainUnit).
C15_GainRounded ==
    (lastOp = "set_camera_parameters" /\ CalledOk(calls, "set", "control", "ANALOG_GAIN"))
    => LET perStep == GainUnit \div 65536
           nearest == (2 * cam.gain + perStep) \div (2 * perStep)
       IN  hw.param["control.ANALOG_GAIN"] = <<nearest, 65536>>

\* C16: after a set_camera_parameters that completed, the buffer size of the
\* capture output port, the port that holds the raw-capture flag, equals that
\* port's recommended buffer size.
C16_CaptureBufferRecommended ==
    ( /\ lastOp = "set_camera_parameters" /\ raised = NoError
      /\ hw.param["capture.ENABLE_RAW_CAPTURE"] # Unset )
    => hw.buffer_size["capture"] = BufferRecommended("capture")

\* C17: a probe component that get_sensor_info created is destroyed when
\* get_sensor_info is left, by return or by exception.
C17_ProbeDestroyed ==
    (lastOp = "MMALCamera" /\ CalledOk(calls, "create", "camera_info", "component"))
    => /\ hw.probe = "destroyed"
       /\ Called(calls, "destroy", "camera_info", "component")

\* C18: once the FPS range is committed and read back, a warning is out
\* exactly when one of the four values read back differs from the one
\* committed; the difference raises no error and the analog gain is set next.
\* A failed set ends the method before the read-back, a failed read-back ends
\* it before the comparison, and nothing but a failed call ends it.
C18_FpsReadBackAdvisory ==
    lastOp = "set_camera_parameters"
    => /\ CalledOk(calls, "get", "capture", "FPS_RANGE")
            => /\ ("fps" \in warned) <=> ( \/ fpsRead.low[1] # fpsArg.low[1]
                                           \/ fpsRead.low[2] # fpsArg.low[2]
                                           \/ fpsRead.high[1] # fpsArg.high[1]
                                           \/ fpsRead.high[2] # fpsArg.high[2] )
               /\ raised \notin {"Failed to set FPS range", "Failed to get FPS range"}
               /\ Called(calls, "set", "control", "ANALOG_GAIN")
               /\ Last(calls).ok => raised = NoError
       /\ (Called(calls, "set", "capture", "FPS_RANGE")
            /\ ~CalledOk(calls, "set", "capture", "FPS_RANGE"))
            => /\ raised = "Failed to set FPS range"
               /\ ~Called(calls, "get", "capture", "FPS_RANGE")
       /\ (Called(calls, "get", "capture", "FPS_RANGE")
            /\ ~CalledOk(calls, "get", "capture", "FPS_RANGE"))
            => /\ raised = "Failed to get FPS range"
               /\ "fps" \notin warned
               /\ ~Called(calls, "set", "control", "ANALOG_GAIN")

\* C18 witness: the port reported the low bound with another denominator,
\* the warning is out, the method completed and the analog gain is set.
C18_Witness ==
    /\ lastOp = "set_camera_parameters"
    /\ fpsRead.low[2] # fpsArg.low[2] /\ fpsRead.low[1] = fpsArg.low[1]
    /\ fpsRead.high = fpsArg.high
    /\ "fps" \in warned
    /\ raised = NoError
    /\ CalledOk(calls, "set", "control", "ANALOG_GAIN")

\* the parameters of set_camera_parameters that are rationals <<num, den>>
RationalKeys ==
    { "control.SATURATION", "control.DIGITAL_GAIN", "control.BRIGHTNESS",
      "control.ANALOG_GAIN" }

\* C19: every rational that set_camera_parameters hands to the hardware
\* (saturation, digital gain, brightness, analog gain, and the FPS bounds of
\* the two fixed regimes) has a denominator other than zero.
C19_NonZeroDenominators ==
    lastOp = "set_camera_parameters"
    => /\ \A k \in RationalKeys : hw.param[k] # Unset => hw.param[k][2] # 0
       /\ ( /\ Called(calls, "set", "capture", "FPS_RANGE")
            /\ U32Lt(<<15, 16960>>, cam.shutter_speed) )
            => (fpsArg.low[2] # 0 /\ fpsArg.high[2] # 0)

\* C20: a shutter speed read back at most 100,000 off the request gives no
\* mismatch warning, for every request of the uint32_t range, those below
\* 100,000 and those within 100,000 of the maximum included.
C20_WarningOnlyOnMismatch ==
    ( /\ lastOp = "set_camera_parameters"
      /\ actual_shutter_speed # Unset
      /\ ~FarOff(actual_shutter_speed, cam.shutter_speed) )
    => "shutter" \notin warned

====
